---- MODULE Spec2Model ----
(***************************************************************************)
(* Model of the minority-class oversampling engine of                      *)
(* src/utils/smote_variants.py: SMOBDSmote.fit_resample and                *)
(* GSmote.fit_resample, the nearest-neighbour query they rely on and the   *)
(* process-wide numpy random generator (np.random) they draw from.         *)
(*                                                                         *)
(* Numbers.  A feature vector is a tuple of integers; one unit is 1/Scale  *)
(* of the dataset's grid step, and every input coordinate is a multiple of *)
(* Scale, so that sample + alpha*(neighbor - sample) is exact for every    *)
(* alpha = a/Scale.  Row numbers are 1-based (Python's row i is row i+1).  *)
(*                                                                         *)
(* Randomness.  np.random is one generator shared by the whole process.    *)
(* Its state is rng; a draw reads the uniform variate rng/RngMod in [0,1)  *)
(* and steps the state (NextRng).  random(), randint(0,n), choice(list)    *)
(* and choice(n, p) are all computed from that variate.                    *)
(*                                                                         *)
(* Web service.  The POST /analyze handler of                              *)
(* src/app/routes/job_analysis.py is modelled with the tables it writes    *)
(* (db) and the requests in flight (request).  A string is a tuple of      *)
(* one-character strings.  A step of a request is a stretch of the handler *)
(* between two statements at which another request can be served: the      *)
(* await of the scrape, and the database statements for requests served by *)
(* different worker processes.                                             *)
(***************************************************************************)
EXTENDS Integers, Sequences, FiniteSets, TLC

\* ---------------------------------------------------------------- bounds
RngMod == 8      \* number of states (and of variates) of the modelled generator
MaxN == 5        \* largest dataset of the enumerated family
MaxK == 3        \* largest k_neighbors that is tried besides MaxN itself
MaxSeed == 1     \* random_state ranges over 0..MaxSeed
PairDeficit == 1 \* largest |majority| - |minority| of the two-call datasets
MaxRequests == 2 \* POST /analyze requests in flight at once

Scale == RngMod  \* units per grid step; random() = rng/RngMod = rng/Scale

CallIds == {1, 2}
Labels == {0, 1}

\* ------------------------------------------------------------ sequences
Range(s) == {s[i] : i \in DOMAIN s}

RECURSIVE SumSeq(_)
SumSeq(s) == IF s = <<>> THEN 0 ELSE Head(s) + SumSeq(Tail(s))

\* s[1:] of Python: the sequence without its first entry
Rest(s) == IF s = <<>> THEN <<>> ELSE Tail(s)

\* the subsequence of the entries of s that belong to keep, in order
RECURSIVE SelectIn(_, _)
SelectIn(s, keep) ==
    IF s = <<>> THEN <<>>
    ELSE IF Head(s) \in keep THEN <<Head(s)>> \o SelectIn(Tail(s), keep)
         ELSE SelectIn(Tail(s), keep)

\* the ascending sequence of the members of a finite set of integers
RECURSIVE Ascending(_)
Ascending(S) ==
    IF S = {} THEN <<>>
    ELSE LET m == CHOOSE x \in S : \A z \in S : x <= z
         IN <<m>> \o Ascending(S \ {m})

\* ------------------------------------------------------------- np.random
\* one step of the generator's state
NextRng(r) == (5 * r + 3) % RngMod

\* np.random.random(): the variate, in units of 1/Scale
Random(r) == r

\* np.random.randint(0, n) and np.random.choice over n equally likely items:
\* floor(variate * n), 0-based
RandInt(r, n) == (r * n) \div RngMod

\* the generator state a RandomState(seed) starts from
SeedState(seed) == seed % RngMod

\* ------------------------------------------------------------- geometry
Dist2(a, b) == SumSeq([i \in DOMAIN a |-> (a[i] - b[i]) * (a[i] - b[i])])

\* floor of the square root, by bisection of lo..hi
RECURSIVE ISqrtIn(_, _, _)
ISqrtIn(n, lo, hi) ==
    IF lo >= hi THEN lo
    ELSE LET mid == (lo + hi + 1) \div 2
         IN IF mid * mid <= n THEN ISqrtIn(n, mid, hi) ELSE ISqrtIn(n, lo, mid - 1)

ISqrt(n) == ISqrtIn(n, 0, IF n < 40000 THEN n ELSE 40000)

\* Euclidean distance in units of 1/Scale, rounded down to the unit
Dist(a, b) == ISqrt(Dist2(a, b))

\* seed + alpha*(neighbor - seed), alpha = a/Scale
Interpolate(sample, neighbor, a) ==
    [i \in DOMAIN sample |-> sample[i] + (a * (neighbor[i] - sample[i])) \div Scale]

\* ------------------------------------------------------------ np.unique
Count(yy, c) == Cardinality({i \in DOMAIN yy : yy[i] = c})

\* np.unique(y): the distinct labels, ascending
UniqueClasses(yy) == Ascending(Range(yy))

\* the last label of least count
MinorityClassLast(yy) ==
    LET u == UniqueClasses(yy)
        i == CHOOSE j \in DOMAIN u :
               /\ \A l \in DOMAIN u : Count(yy, u[j]) <= Count(yy, u[l])
               /\ \A l \in (j + 1)..Len(u) : Count(yy, u[l]) > Count(yy, u[j])
    IN u[i]

\* unique_classes[np.argmin(class_counts)]: first label of least count
MinorityClass(yy) ==
    LET u == UniqueClasses(yy)
        i == CHOOSE j \in DOMAIN u :
               /\ \A l \in DOMAIN u : Count(yy, u[j]) <= Count(yy, u[l])
               /\ \A l \in 1..(j - 1) : Count(yy, u[l]) > Count(yy, u[j])
    IN u[i]

\* unique_classes[np.argmax(class_counts)]: first label of greatest count
MajorityClass(yy) ==
    LET u == UniqueClasses(yy)
        i == CHOOSE j \in DOMAIN u :
               /\ \A l \in DOMAIN u : Count(yy, u[j]) >= Count(yy, u[l])
               /\ \A l \in 1..(j - 1) : Count(yy, u[l]) < Count(yy, u[j])
    IN u[i]

\* np.where(y == c)[0]: the rows labelled c, ascending
Where(yy, c) == Ascending({i \in DOMAIN yy : yy[i] = c})

\* ---------------------------------------------------- NearestNeighbors
\* The orders in which kneighbors may return the n nearest rows of XX to the
\* point q: ascending by distance; rows at equal distance come in an order
\* (and, at the cut, in a selection) the library does not specify.
RECURSIVE NearestOrders(_, _, _, _)
NearestOrders(XX, q, rows, n) ==
    IF n = 0 \/ rows = {} THEN {<<>>}
    ELSE LET nearest == {m \in rows :
                           \A z \in rows : Dist2(q, XX[m]) <= Dist2(q, XX[z])}
         IN UNION {{<<m>> \o s : s \in NearestOrders(XX, q, rows \ {m}, n - 1)} :
                   m \in nearest}

\* all tables with one row of NearestOrders per query row
RECURSIVE KNeighborsTables(_, _, _)
KNeighborsTables(XX, queries, n) ==
    IF queries = <<>> THEN {<<>>}
    ELSE {<<r>> \o t : r \in NearestOrders(XX, XX[Head(queries)], DOMAIN XX, n),
                       t \in KNeighborsTables(XX, Tail(queries), n)}

\* the distances that go with a table of neighbour rows
DistancesOf(XX, queries, table) ==
    [i \in DOMAIN table |->
        [j \in DOMAIN table[i] |-> Dist(XX[queries[i]], XX[table[i][j]])]]

\* ------------------------------------------- np.random.choice(n, p=...)
\* A density is num / (den0 + den1*eps), eps the constant 1e-10 of the code,
\* kept symbolic: a polynomial in eps is the tuple of its coefficients,
\* lowest degree first, and two polynomials with small integer coefficients
\* compare, at eps = 1e-10, as their coefficients compare lexicographically.
RECURSIVE PolyTimesLinearFrom(_, _, _, _)
PolyTimesLinearFrom(p, a0, a1, d) ==
    IF d > Len(p) + 1 THEN <<>>
    ELSE <<(IF d <= Len(p) THEN a0 * p[d] ELSE 0) + (IF d > 1 THEN a1 * p[d - 1] ELSE 0)>>
         \o PolyTimesLinearFrom(p, a0, a1, d + 1)

\* p * (a0 + a1*eps)
PolyTimesLinear(p, a0, a1) == PolyTimesLinearFrom(p, a0, a1, 1)

RECURSIVE PolyScale(_, _)
PolyScale(c, p) == IF p = <<>> THEN <<>> ELSE <<c * Head(p)>> \o PolyScale(c, Tail(p))

RECURSIVE PolyAdd(_, _)
PolyAdd(p, q) ==
    IF p = <<>> THEN <<>> ELSE <<Head(p) + Head(q)>> \o PolyAdd(Tail(p), Tail(q))

PolyLeq(p, q) ==
    \/ p = q
    \/ \E d \in DOMAIN p : p[d] < q[d] /\ \A l \in 1..(d - 1) : p[l] = q[l]

\* num_i times the product of the denominators of all densities but the i-th
RECURSIVE CrossTerm(_, _, _)
CrossTerm(ds, i, l) ==
    IF l > Len(ds) THEN <<ds[i].num>>
    ELSE IF l = i THEN PolyTimesLinear(CrossTerm(ds, i, l + 1), 1, 0)
         ELSE PolyTimesLinear(CrossTerm(ds, i, l + 1), ds[l].den0, ds[l].den1)

\* sum(densities) > 0
TotalDensityPositive(ds) ==
    \E i \in DOMAIN ds : ds[i].num > 0 /\ (ds[i].den0 > 0 \/ (ds[i].den0 = 0 /\ ds[i].den1 > 0))

\* the sum of the first j polynomials of ps
RECURSIVE PolySum(_, _)
PolySum(ps, j) == IF j = 1 THEN ps[1] ELSE PolyAdd(PolySum(ps, j - 1), ps[j])

\* np.random.choice(n, p): the number of entries of cumsum(p) that are <= the
\* variate (0-based index of the chosen item); p[i] is w.p[i] / w.total
ChoiceP(w, r) ==
    Cardinality({j \in DOMAIN w.p :
                   PolyLeq(PolyScale(RngMod, PolySum(w.p, j)), PolyScale(r, w.total))})

\* ------------------------------------------------ imblearn SMOTE (external)
\* k_neighbors of SMOTE(random_state=...), the library's default
SmoteK == 5

\* the generator state after t draws
RECURSIVE RngAfter(_, _)
RngAfter(r, t) == IF t = 0 THEN r ELSE RngAfter(NextRng(r), t - 1)

\* The outcomes of SMOTE(random_state=seed).fit_resample(XX, yy) on a dataset
\* of at most two classes; what it returns is always a new pair of arrays.  The class that is not the majority receives
\* n = |majority| - |class| rows; each is X_class[row] + step*(neighbour - X_class[row])
\* for a row and one of its SmoteK nearest rows of the same class, both drawn
\* from a private RandomState(seed): first the n cell numbers, then the n steps.
SMOTEFitResample(XX, yy, seed) ==
    LET u == UniqueClasses(yy)
        maj == MajorityClass(yy)
        c == IF Len(u) < 2 THEN maj ELSE IF u[1] = maj THEN u[2] ELSE u[1]
        rows == Where(yy, c)
        Xc == [i \in DOMAIN rows |-> XX[rows[i]]]
        n == Count(yy, maj) - Count(yy, c)
        s0 == SeedState(seed)
    IN IF Len(u) < 2 THEN {[result |-> "ValueError", X |-> <<>>, y |-> <<>>]}
       ELSE IF n = 0 THEN {[result |-> "ok", X |-> XX, y |-> yy]}
       ELSE IF SmoteK + 1 > Len(rows) THEN {[result |-> "ValueError", X |-> <<>>, y |-> <<>>]}
       ELSE {[result |-> "ok",
              X |-> XX \o [t \in 1..n |->
                      LET cell == RandInt(RngAfter(s0, t - 1), Len(rows) * SmoteK)
                          row == (cell \div SmoteK) + 1
                          col == (cell % SmoteK) + 1
                          step == Random(RngAfter(s0, n + t - 1))
                      IN Interpolate(Xc[row], Xc[Rest(nn[row])[col]], step)],
              y |-> yy \o [t \in 1..n |-> c]] :
             nn \in KNeighborsTables(Xc, [i \in DOMAIN rows |-> i], SmoteK + 1)}

\* ------------------------------------------- analyze_job: requests and rows
\* POST /analyze requests in flight at once
RequestIds == 1..MaxRequests

\* server processes sharing the database; each runs one event loop
Workers == {1, 2}

RECURSIVE Repeat(_, _)
Repeat(ch, n) == IF n = 0 THEN <<>> ELSE <<ch>> \o Repeat(ch, n - 1)

\* str.strip(); the blank is the only whitespace character of the alphabet
RECURSIVE LStrip(_)
LStrip(s) == IF s # <<>> /\ Head(s) = " " THEN LStrip(Tail(s)) ELSE s

RECURSIVE RStrip(_)
RStrip(s) == IF s # <<>> /\ s[Len(s)] = " " THEN RStrip(SubSeq(s, 1, Len(s) - 1)) ELSE s

Strip(s) == RStrip(LStrip(s))

\* str.startswith(prefix)
StartsWith(s, prefix) ==
    /\ Len(s) >= Len(prefix)
    /\ SubSeq(s, 1, Len(prefix)) = prefix

HttpPrefix == <<"h", "t", "t", "p", ":", "/", "/">>

HttpsPrefix == <<"h", "t", "t", "p", "s", ":", "/", "/">>

\* the shortest text that is analysed
MinTextLength == 50

\* an Optional[str] field of the request body: absent (None) or a string
Omitted == [given |-> FALSE, value |-> <<>>]

Given(v) == [given |-> TRUE, value |-> v]

\* Python truth value of an Optional[str]
Truthy(f) == f.given /\ f.value # <<>>

\* JobUrl.validate_url: info.data holds the fields validated before url (none)
ValidateUrl(v, data) ==
    IF ~Truthy(v) /\ ~Truthy(data.text) THEN "ValueError"
    ELSE IF Truthy(v) /\ ~(StartsWith(v.value, HttpPrefix) \/ StartsWith(v.value, HttpsPrefix))
         THEN "ValueError"
         ELSE "ok"

\* JobUrl.validate_text: info.data holds url when url was accepted
ValidateText(v, data) ==
    IF ~Truthy(v) /\ ~Truthy(data.url) THEN "ValueError"
    ELSE IF Truthy(v) /\ Len(Strip(v.value)) < MinTextLength THEN "ValueError"
         ELSE "ok"

\* JobUrl(**body): a field validator runs only for a field the body carries
JobUrlValidates(job_input) ==
    LET url_ok == \/ ~job_input.url.given
                  \/ ValidateUrl(job_input.url, [url |-> Omitted, text |-> Omitted]) = "ok"
        text_ok == \/ ~job_input.text.given
                   \/ ValidateText(job_input.text,
                                   [url |-> IF url_ok THEN job_input.url ELSE Omitted,
                                    text |-> Omitted]) = "ok"
    IN url_ok /\ text_ok

FtpUrl == <<"f", "t", "p", ":", "/", "/", "a">>

HttpUrl == HttpPrefix \o <<"a">>

HttpsUrl == HttpsPrefix \o <<"a">>

UrlValues == {Omitted, Given(FtpUrl), Given(HttpUrl), Given(HttpsUrl)}

\* exactly MinTextLength characters, none blank
LongText == Repeat("x", MinTextLength)

\* longer than MinTextLength, shorter once stripped
PaddedShortText == <<" ">> \o Repeat("x", MinTextLength - 1) \o <<" ">>

TextValues == {Omitted, Given(<<>>), Given(PaddedShortText), Given(LongText)}

\* the markdown a crawl may get from a page
PageContents == {<<>>, PaddedShortText, LongText}

\* _scrape_process refuses a page that is too short: ValueError
InsufficientContent(content) == Len(Strip(content)) < MinTextLength

\* verdict of the classifier after the LLM validation
Verdicts == [is_fake : BOOLEAN, confidence : {60, 90}]

DirectTextInput ==
    <<"D", "i", "r", "e", "c", "t", " ", "T", "e", "x", "t", " ", "I", "n", "p", "u", "t">>

\* the tables job_analyses and blacklisted_jobs, rows in insertion order
EmptyDb == [job_analyses |-> <<>>, blacklisted_jobs |-> <<>>]

NoRow == [id |-> 0, job_url |-> <<>>, is_fake |-> FALSE, confidence |-> 0, report_count |-> 0]

\* db.query(BlacklistedJob).filter(job_url == url).first(): row index, 0 for None
BlacklistedJobFirstNone(blacklisted_jobs, url) == 0

BlacklistedJobFirst(blacklisted_jobs, url) ==
    IF \E i \in DOMAIN blacklisted_jobs : blacklisted_jobs[i].job_url = url
    THEN CHOOSE i \in DOMAIN blacklisted_jobs :
            /\ blacklisted_jobs[i].job_url = url
            /\ \A j \in DOMAIN blacklisted_jobs :
                  blacklisted_jobs[j].job_url = url => i <= j
    ELSE 0

\* the UNIQUE constraint on blacklisted_jobs.job_url refuses the INSERT
UniqueViolation(blacklisted_jobs, url) ==
    \E i \in DOMAIN blacklisted_jobs : blacklisted_jobs[i].job_url = url

NoPrediction ==
    [id |-> 0, job_analysis_id |-> 0, job_url |-> <<>>, is_fake |-> FALSE,
     confidence |-> 0, reasoning |-> 0, is_blacklisted |-> FALSE]

\* the prediction returned for a blacklisted URL; of reasoning only the
\* report count it quotes is kept
BlacklistedPrediction(url, blacklisted_job) ==
    [id |-> 0, job_analysis_id |-> 0, job_url |-> url,
     is_fake |-> blacklisted_job.is_fake, confidence |-> blacklisted_job.confidence,
     reasoning |-> blacklisted_job.report_count, is_blacklisted |-> TRUE]

\* the prediction returned after an analysis
Prediction(db_job_analysis) ==
    [id |-> db_job_analysis.id, job_analysis_id |-> db_job_analysis.id,
     job_url |-> db_job_analysis.job_url, is_fake |-> db_job_analysis.is_fake,
     confidence |-> db_job_analysis.confidence, reasoning |-> 0,
     is_blacklisted |-> FALSE]

\* except Exception: whatever was raised inside the try, an HTTPException
\* with another status included, leaves as HTTPException(500)
ExceptException(status_code) == 500

\* a request that has not arrived
Pending ==
    [pc |-> "pending", worker |-> 0,
     job_input |-> [url |-> Omitted, text |-> Omitted], text |-> Omitted,
     is_fake |-> FALSE, confidence |-> 0, job_analysis_id |-> 0,
     existing_blacklist |-> NoRow, status |-> 0, response |-> NoPrediction]

Max(a, b) == IF a >= b THEN a ELSE b

\* ------------------------------------------------------------------ state
VARIABLES
    X,      \* the caller's feature matrix: a sequence of vectors
    y,      \* the caller's labels, index for index with X
    inst,   \* the oversampler object: class and constructor arguments
    rng,    \* state of the process-wide generator np.random
    call,   \* per fit_resample call: position, locals and returned value
    variant, \* the get_smote_variant call: arguments, position and outcome
    db,      \* the committed rows of job_analyses and blacklisted_jobs
    request  \* per POST /analyze request: position, locals and response

vars == <<X, y, inst, rng, call, variant, db, request>>

\* a call that has not started
Idle ==
    [pc |-> "idle", rng0 |-> 0,
     minority_class |-> 0, majority_class |-> 0, minority_indices |-> <<>>,
     indices |-> <<>>, distances |-> <<>>, borderline_indices |-> <<>>,
     densities |-> [uniform |-> FALSE, d |-> <<>>, p |-> <<>>, total |-> <<>>],
     n_samples |-> 0, it |-> 0, idx |-> 0, valid |-> <<>>, neighbor_idx |-> 0,
     synthetic_samples |-> <<>>, synthetic_labels |-> <<>>, drawn |-> <<>>,
     result |-> "none", X_resampled |-> <<>>, y_resampled |-> <<>>,
     same_object |-> FALSE]

\* no get_smote_variant call: the oversampler was constructed directly
NoRequest ==
    [pc |-> "none", variant_name |-> <<>>, random_state |-> 0, result |-> "none",
     message |-> [variant_name |-> <<>>, available |-> <<>>]]

\* ---------------------------------------------------------------- inputs
\* grid points of the enumerated family; from each of them the others are at
\* pairwise different distances
Points == << <<0, 0>>, <<Scale, 0>>, <<0, 2 * Scale>>, <<3 * Scale, 2 * Scale>>,
             <<2 * Scale, 5 * Scale>> >>

\* the labellings of n rows in which both labels occur
Labellings(n) == {l \in [1..n -> Labels] : Range(l) = Labels}

\* datasets of 2..MaxN different rows of Points, in the order of Points
DistinctDatasets ==
    UNION {{[X |-> [i \in 1..n |-> Points[f[i]]], y |-> yy] :
              f \in {g \in [1..n -> DOMAIN Points] : \A i \in 1..(n - 1) : g[i] < g[i + 1]},
              yy \in Labellings(n)} :
           n \in 2..MaxN}

\* datasets of 2..MaxN-1 rows over the first three of Points in which exactly
\* one vector occurs twice
DuplicateDatasets ==
    UNION {{[X |-> [i \in 1..n |-> Points[f[i]]], y |-> yy] :
              f \in {g \in [1..n -> 1..3] :
                       /\ \A i \in 1..(n - 1) : g[i] <= g[i + 1]
                       /\ Cardinality({i \in 1..(n - 1) : g[i] = g[i + 1]}) = 1},
              yy \in Labellings(n)} :
           n \in 2..(MaxN - 1)}

\* a sixth point, at different distances from (and seen from) the other five
WidePoints == Points \o << <<4 * Scale, 3 * Scale>> >>

\* datasets of all of WidePoints with exactly two rows of one label, so that
\* a deficit of two meets two minority rows
DeficitDatasets ==
    {[X |-> WidePoints, y |-> yy] :
        yy \in {l \in [DOMAIN WidePoints -> Labels] :
                  \E c \in Labels : Cardinality({i \in DOMAIN l : l[i] = c}) = 2}}

SmallDatasets == DistinctDatasets \cup DuplicateDatasets \cup DeficitDatasets

\* two far-apart clusters, SmoteK+1 minority rows and one more majority row,
\* rows of a cluster at pairwise different distances
SeparatedDataset ==
    [X |-> << <<0, 0>>, <<Scale, 0>>, <<4 * Scale, 0>>, <<10 * Scale, 0>>,
              <<12 * Scale, 0>>, <<17 * Scale, 0>>,
              <<0, 100 * Scale>>, <<Scale, 100 * Scale>>, <<4 * Scale, 100 * Scale>>,
              <<10 * Scale, 100 * Scale>>, <<18 * Scale, 100 * Scale>>,
              <<23 * Scale, 100 * Scale>>, <<25 * Scale, 100 * Scale>> >>,
     y |-> <<1, 1, 1, 1, 1, 1, 0, 0, 0, 0, 0, 0, 0>>]

\* Scenario A of the specification, one grid step = 0.1: ten majority rows
\* within (0,0)+-0.1, two minority rows at (0.5,0.5), one within (1,1)+-0.1.
\* The tenth majority row, the third minority row and the label that plays the
\* majority vary.
ScenarioDatasets ==
    {[X |-> << <<Scale, Scale>>, <<Scale, 0>>, <<0, 0>>, <<Scale, -Scale>>,
               <<0, -Scale>>, <<0, -Scale>>, <<-Scale, -Scale>>, <<-Scale, -Scale>>,
               <<-Scale, -Scale>>,
               m10,
               <<5 * Scale, 5 * Scale>>, <<5 * Scale, 5 * Scale>>,
               <<10 * Scale + p3[1], 10 * Scale + p3[2]>> >>,
      y |-> [i \in 1..13 |-> IF i <= 10 THEN maj ELSE 1 - maj]] :
        m10 \in {<<-Scale, -Scale>>, <<0, Scale>>},
        p3 \in {<<0, 0>>, <<-Scale, -Scale>>, <<Scale, Scale>>},
        maj \in Labels}

\* k_neighbors of Scenarios A and B
ScenarioK == 5

\* constructor arguments that are tried
KNeighborsValues == (1..MaxK) \cup {MaxN}
Strategies == {"minority", "majority", "combined"}
TruncationFactors == {Scale \div 2, Scale, Scale + Scale \div 2}
Seeds == 0..MaxSeed

\* SMOBDSmote(k_neighbors, random_state) and GSmote(k_neighbors,
\* selection_strategy, truncation_factor, random_state)
Instances ==
    {[cls |-> "SMOBDSmote", k_neighbors |-> k, selection_strategy |-> "combined",
      truncation_factor |-> Scale, random_state |-> sd] :
        k \in KNeighborsValues, sd \in Seeds}
    \cup
    {[cls |-> "GSmote", k_neighbors |-> k, selection_strategy |-> st,
      truncation_factor |-> tf, random_state |-> sd] :
        k \in KNeighborsValues, st \in Strategies, tf \in TruncationFactors, sd \in {0}}

InitWith(datasets, instances) ==
    /\ \E d \in datasets : X = d.X /\ y = d.y
    /\ inst \in instances
    /\ rng \in 0..(RngMod - 1)
    /\ call = [c \in CallIds |-> Idle]
    /\ variant = NoRequest
    /\ db = EmptyDb
    /\ request = [r \in RequestIds |-> Pending]

Init == InitWith(SmallDatasets \cup {SeparatedDataset}, Instances)

\* ------------------------------------------------------------ str.lower()
\* a string is the sequence of its characters
UpperLetters ==
    <<"A", "B", "C", "D", "E", "F", "G", "H", "I", "J", "K", "L", "M",
      "N", "O", "P", "Q", "R", "S", "T", "U", "V", "W", "X", "Y", "Z">>
LowerLetters ==
    <<"a", "b", "c", "d", "e", "f", "g", "h", "i", "j", "k", "l", "m",
      "n", "o", "p", "q", "r", "s", "t", "u", "v", "w", "x", "y", "z">>

\* the lower-case form of a character: of a capital the small letter, of any
\* other character itself
LowerChar(ch) ==
    IF \E i \in DOMAIN UpperLetters : UpperLetters[i] = ch
    THEN LowerLetters[CHOOSE i \in DOMAIN UpperLetters : UpperLetters[i] = ch]
    ELSE ch

\* s.lower()
StrLower(s) == [i \in DOMAIN s |-> LowerChar(s[i])]

\* ------------------------------------------------------ get_smote_variant
\* the keys of the dict `variants`, in insertion order
SmoteName == <<"s", "m", "o", "t", "e">>
BorderlineSmoteName == <<"b", "o", "r", "d", "e", "r", "l", "i", "n", "e", "_", "s", "m", "o", "t", "e">>
SvmSmoteName == <<"s", "v", "m", "_", "s", "m", "o", "t", "e">>
AdasynName == <<"a", "d", "a", "s", "y", "n">>
SmoteTomekName == <<"s", "m", "o", "t", "e", "_", "t", "o", "m", "e", "k">>
SmobdSmoteName == <<"s", "m", "o", "b", "d", "_", "s", "m", "o", "t", "e">>
GSmoteName == <<"g", "_", "s", "m", "o", "t", "e">>

VariantsKeys ==
    <<SmoteName, BorderlineSmoteName, SvmSmoteName, AdasynName, SmoteTomekName,
      SmobdSmoteName, GSmoteName>>

\* k_neighbors when the constructor is not given one
DefaultK == 5

\* an object built with nothing but random_state: the imblearn classes are
\* known by their names only
Constructed(cls, random_state) ==
    [cls |-> cls, k_neighbors |-> DefaultK, selection_strategy |-> "combined",
     truncation_factor |-> Scale, random_state |-> random_state]

\* the values of the dict `variants`, in the order of VariantsKeys
VariantsValues(random_state) ==
    <<Constructed("SMOTE", random_state), Constructed("BorderlineSMOTE", random_state),
      Constructed("SVMSMOTE", random_state), Constructed("ADASYN", random_state),
      Constructed("SMOTETomek", random_state), Constructed("SMOBDSmote", random_state),
      Constructed("GSmote", random_state)>>

\* the key looked up as it is given
VariantsKeyExact(variant_name) == variant_name

\* variant_name.lower(), the key that is looked up
VariantsKey(variant_name) == StrLower(variant_name)

\* a message that names no variant
UnknownVariantMessageBare(variant_name, keys) ==
    [variant_name |-> variant_name, available |-> <<>>]

\* f"Unknown SMOTE variant: {variant_name}. Available variants: {list(variants.keys())}"
UnknownVariantMessage(variant_name, keys) ==
    [variant_name |-> variant_name, available |-> keys]

\* the variable `smote` of the caller before the call returns
NoInstance == Constructed("none", 0)

\* the capital of a small letter, any other character itself
UpperChar(ch) ==
    IF \E i \in DOMAIN LowerLetters : LowerLetters[i] = ch
    THEN UpperLetters[CHOOSE i \in DOMAIN LowerLetters : LowerLetters[i] = ch]
    ELSE ch

\* the spellings of s with any of its letters capital
CaseVariants(s) ==
    {[i \in DOMAIN s |-> IF i \in U THEN UpperChar(s[i]) ELSE s[i]] : U \in SUBSET DOMAIN s}

\* s in lower case, in capitals, and with a capital initial
PlainVariants(s) ==
    {s, [i \in DOMAIN s |-> UpperChar(s[i])],
     [i \in DOMAIN s |-> IF i = 1 THEN UpperChar(s[i]) ELSE s[i]]}

\* names that are no key in any spelling
UnknownNames ==
    CaseVariants(<<"f", "o", "o", "_", "s", "m", "o", "t", "e">>)
    \cup {<<>>, <<"g", "s", "m", "o", "t", "e">>, <<"g", "-", "s", "m", "o", "t", "e">>, <<"s", "m", "o", "b", "d">>,
          <<"g", "_", "s", "m", "o", "t", "e", " ">>, <<"s", "m", "o", "t", "e", "_">>}

\* the variant names that are tried
VariantNames ==
    CaseVariants(SmobdSmoteName) \cup CaseVariants(GSmoteName)
    \cup UNION {PlainVariants(VariantsKeys[i]) : i \in DOMAIN VariantsKeys}
    \cup UnknownNames

\* ------------------------------------------------ pieces of fit_resample
\* a query that lets one neighbour too many through
KNeighborsFailsLax(n_neighbors, XX) == n_neighbors > Len(XX) + 1

\* n_neighbors > n_samples_fit: kneighbors raises ValueError
KNeighborsFails(n_neighbors, XX) == n_neighbors > Len(XX)

\* a stricter test: more than (k_neighbors + 1) / 2
BorderlineTestStrict(majority_count, k) == 2 * majority_count > k + 1

\* half of the neighbours is enough
BorderlineTestAtLeast(majority_count, k) == 2 * majority_count >= k

\* majority_count > self.k_neighbors / 2 (true division)
BorderlineTest(majority_count, k) == 2 * majority_count > k

\* positions (in the minority arrays) of the borderline samples, ascending
BorderlineIndices(yy, indices, majority_class, k) ==
    LET MajorityCount(i) ==
            Cardinality({j \in DOMAIN Rest(indices[i]) :
                            yy[Rest(indices[i])[j]] = majority_class})
    IN Ascending({i \in DOMAIN indices : BorderlineTest(MajorityCount(i), k)})

\* the mean distance itself taken as the density
RawDensitiesDistance(distances, borderline_indices) ==
    [i \in DOMAIN borderline_indices |->
        LET ds == Rest(distances[borderline_indices[i]])
        IN [num |-> SumSeq(ds), den0 |-> Len(ds) * Scale, den1 |-> 0]]

\* the densities without the constant 1e-10
RawDensitiesNoEpsilon(distances, borderline_indices) ==
    [i \in DOMAIN borderline_indices |->
        LET ds == Rest(distances[borderline_indices[i]])
        IN [num |-> Len(ds) * Scale, den0 |-> SumSeq(ds), den1 |-> 0]]

\* 1.0 / (np.mean(distances[b][1:]) + 1e-10) for every borderline position b
RawDensities(distances, borderline_indices) ==
    [i \in DOMAIN borderline_indices |->
        LET ds == Rest(distances[borderline_indices[i]])
        IN [num |-> Len(ds) * Scale, den0 |-> SumSeq(ds), den1 |-> Len(ds) * Scale]]

\* the normalisation: d / total_density if the total is positive, else 1/n
\* each; the weights are kept as numerators p over the common denominator total
Densities(distances, borderline_indices) ==
    LET d == RawDensities(distances, borderline_indices)
        p == [i \in DOMAIN d |-> CrossTerm(d, i, 1)]
    IN IF TotalDensityPositive(d)
       THEN [uniform |-> FALSE, d |-> d, p |-> p, total |-> PolySum(p, Len(p))]
       ELSE [uniform |-> TRUE, d |-> d, p |-> [i \in DOMAIN d |-> <<1>>],
             total |-> <<Len(d)>>]

\* the neighbour list left as it is
NNMinorityIdxAll(yy, nn_idx, minority_class) == nn_idx

\* [i for i in nn_idx if y[i] == minority_class]
NNMinorityIdx(yy, nn_idx, minority_class) ==
    SelectIn(nn_idx, {i \in DOMAIN yy : yy[i] = minority_class})

\* a draw over [0, 2) instead of [0, 1)
SMOBDAlphaWide(r) == 2 * Random(r)

\* alpha = np.random.random(), in units of 1/Scale
SMOBDAlpha(r) == Random(r)

\* a deficit of at least one
SMOBDNSamplesAtLeastOne(yy, majority_indices, minority_indices) ==
    IF Len(majority_indices) - Len(minority_indices) >= 1
    THEN Len(majority_indices) - Len(minority_indices)
    ELSE 1

\* the deficit taken against the whole dataset instead of the majority
SMOBDNSamplesOfAll(yy, majority_indices, minority_indices) ==
    Len(yy) - Len(minority_indices)

\* n_samples = len(X_majority) - len(X_minority)
SMOBDNSamples(yy, majority_indices, minority_indices) ==
    Len(majority_indices) - Len(minority_indices)

\* a loop that makes one pass too many
LoopDoneLate(it, n_samples) == it > n_samples

\* the for loop over range(n_samples) has run out
LoopDone(it, n_samples) == it >= n_samples

\* a strategy that is none of the three names keeps nothing
GSmoteValidNeighborsValidated(strategy, yy, nn_idx, minority_class) ==
    IF strategy = "minority"
    THEN Ascending({i \in DOMAIN nn_idx : yy[nn_idx[i]] = minority_class})
    ELSE IF strategy = "majority"
         THEN Ascending({i \in DOMAIN nn_idx : yy[nn_idx[i]] # minority_class})
         ELSE IF strategy = "combined" THEN Ascending(DOMAIN nn_idx) ELSE <<>>

\* every neighbour kept, whatever the strategy
GSmoteValidNeighborsAll(strategy, yy, nn_idx, minority_class) ==
    Ascending(DOMAIN nn_idx)

\* the 'minority' and 'majority' filters exchanged
GSmoteValidNeighborsSwapped(strategy, yy, nn_idx, minority_class) ==
    IF strategy = "minority"
    THEN Ascending({i \in DOMAIN nn_idx : yy[nn_idx[i]] # minority_class})
    ELSE IF strategy = "majority"
         THEN Ascending({i \in DOMAIN nn_idx : yy[nn_idx[i]] = minority_class})
         ELSE Ascending(DOMAIN nn_idx)

\* positions in indices[idx][1:] that the selection strategy keeps
\* (1-based; the code's enumerate is 0-based)
GSmoteValidNeighbors(strategy, yy, nn_idx, minority_class) ==
    IF strategy = "minority"
    THEN Ascending({i \in DOMAIN nn_idx : yy[nn_idx[i]] = minority_class})
    ELSE IF strategy = "majority"
         THEN Ascending({i \in DOMAIN nn_idx : yy[nn_idx[i]] # minority_class})
         ELSE Ascending(DOMAIN nn_idx)

\* alpha without the truncation
GSmoteAlphaUntruncated(r, truncation_factor) == 2 * Random(r) - Scale

\* alpha = np.random.random() * 2 - 1, then the truncation, in units of 1/Scale
GSmoteAlpha(r, truncation_factor) ==
    LET alpha == 2 * Random(r) - Scale
    IN IF alpha < 0
       THEN (IF alpha >= -truncation_factor THEN alpha ELSE -truncation_factor)
       ELSE (IF alpha <= truncation_factor THEN alpha ELSE truncation_factor)

\* the deficit with the minority count not taken off
GSmoteNSamplesOfMajority(n_majority, n_minority) == n_majority

\* n_samples = n_majority - n_minority
GSmoteNSamples(n_majority, n_minority) == n_majority - n_minority

\* an early return that lets equal counts through
GSmoteNoDeficitStrict(n_samples) == n_samples < 0

\* if n_samples <= 0: return X, y
GSmoteNoDeficit(n_samples) == n_samples <= 0

\* the majority label appended instead
SyntheticLabelMajority(minority_class, majority_class) == majority_class

\* the label appended with a synthetic sample
SyntheticLabel(minority_class, majority_class) == minority_class

\* the synthetic rows stacked last made first
CombineReversed(XX, yy, synthetic_samples, synthetic_labels) ==
    [X |-> XX \o [t \in DOMAIN synthetic_samples |->
                     synthetic_samples[Len(synthetic_samples) + 1 - t]],
     y |-> yy \o synthetic_labels, same_object |-> synthetic_samples = <<>>]

\* np.vstack / np.hstack of the originals and the synthetic rows: new arrays;
\* or, when there is no synthetic row, the input arrays themselves
\* (same_object: what is returned is the caller's own X and y, not a copy)
Combine(XX, yy, synthetic_samples, synthetic_labels) ==
    IF synthetic_samples # <<>>
    THEN [X |-> XX \o synthetic_samples, y |-> yy \o synthetic_labels,
          same_object |-> FALSE]
    ELSE [X |-> XX, y |-> yy, same_object |-> TRUE]

\* a pass that is made again when its pool is empty
ContinueRetry(cl) == cl

\* `continue`: the pass is over, nothing appended
Continue(cl) == [cl EXCEPT !.it = cl.it + 1]

\* a call that ended by raising
Raised(cl, error) == [cl EXCEPT !.pc = "done", !.result = error]

\* ------------------------------------------------ SMOBDSmote.fit_resample
\* lines 18-72: classes, neighbour query, borderline detection, SMOTE
\* fallback, densities, n_samples
SMOBDFitResample(c) ==
    /\ inst.cls = "SMOBDSmote"
    /\ call[c].pc = "idle"
    /\ LET minority_class == MinorityClass(y)
           majority_class == MajorityClass(y)
           minority_indices == Where(y, minority_class)
           majority_indices == Where(y, majority_class)
           entered == [call[c] EXCEPT !.rng0 = rng,
                          !.minority_class = minority_class,
                          !.majority_class = majority_class,
                          !.minority_indices = minority_indices]
       IN IF KNeighborsFails(inst.k_neighbors + 1, X)
          THEN call' = [call EXCEPT ![c] = Raised(entered, "ValueError")]
          ELSE \E indices \in KNeighborsTables(X, minority_indices, inst.k_neighbors + 1) :
                 LET distances == DistancesOf(X, minority_indices, indices)
                     borderline_indices ==
                         BorderlineIndices(y, indices, majority_class, inst.k_neighbors)
                     queried == [entered EXCEPT !.indices = indices,
                                    !.distances = distances,
                                    !.borderline_indices = borderline_indices]
                 IN IF borderline_indices = <<>>
                    THEN \E out \in SMOTEFitResample(X, y, inst.random_state) :
                           call' = [call EXCEPT ![c] =
                                      [queried EXCEPT !.pc = "done", !.result = out.result,
                                          !.X_resampled = out.X, !.y_resampled = out.y]]
                    ELSE call' = [call EXCEPT ![c] =
                                    [queried EXCEPT !.pc = "sample",
                                        !.densities = Densities(distances, borderline_indices),
                                        !.n_samples =
                                            SMOBDNSamples(y, majority_indices, minority_indices)]]
    /\ UNCHANGED <<X, y, inst, rng, variant, db, request>>

\* lines 78-88: one pass of the loop up to the test of nn_minority_idx
SMOBDDrawSample(c) ==
    /\ inst.cls = "SMOBDSmote"
    /\ call[c].pc = "sample"
    /\ ~LoopDone(call[c].it, call[c].n_samples)
    /\ LET cl == call[c]
           idx == ChoiceP(cl.densities, rng)
           nn_idx == Rest(cl.indices[cl.borderline_indices[idx + 1]])
           nn_minority_idx == NNMinorityIdx(y, nn_idx, cl.minority_class)
       IN IF nn_minority_idx = <<>>
          THEN call' = [call EXCEPT ![c] = Continue(cl)]
          ELSE call' = [call EXCEPT ![c] =
                          [cl EXCEPT !.pc = "neighbor", !.idx = idx, !.valid = nn_minority_idx]]
    /\ rng' = NextRng(rng)
    /\ UNCHANGED <<X, y, inst, variant, db, request>>

\* lines 91-92: neighbor_idx = np.random.choice(nn_minority_idx)
SMOBDDrawNeighbor(c) ==
    /\ inst.cls = "SMOBDSmote"
    /\ call[c].pc = "neighbor"
    /\ LET cl == call[c]
       IN call' = [call EXCEPT ![c] =
                     [cl EXCEPT !.pc = "alpha",
                         !.neighbor_idx = cl.valid[RandInt(rng, Len(cl.valid)) + 1]]]
    /\ rng' = NextRng(rng)
    /\ UNCHANGED <<X, y, inst, variant, db, request>>

\* lines 95-99: alpha, the synthetic sample and its label
SMOBDDrawAlpha(c) ==
    /\ inst.cls = "SMOBDSmote"
    /\ call[c].pc = "alpha"
    /\ LET cl == call[c]
           seed == cl.minority_indices[cl.borderline_indices[cl.idx + 1]]
           alpha == SMOBDAlpha(rng)
       IN call' = [call EXCEPT ![c] =
                     [cl EXCEPT !.pc = "sample", !.it = cl.it + 1,
                         !.synthetic_samples =
                             Append(@, Interpolate(X[seed], X[cl.neighbor_idx], alpha)),
                         !.synthetic_labels =
                             Append(@, SyntheticLabel(cl.minority_class, cl.majority_class)),
                         !.drawn = Append(@, [seed |-> seed, neighbor |-> cl.neighbor_idx,
                                               alpha |-> alpha])]]
    /\ rng' = NextRng(rng)
    /\ UNCHANGED <<X, y, inst, variant, db, request>>

\* lines 101-109: combine and return
SMOBDReturn(c) ==
    /\ inst.cls = "SMOBDSmote"
    /\ call[c].pc = "sample"
    /\ LoopDone(call[c].it, call[c].n_samples)
    /\ LET cl == call[c]
           out == Combine(X, y, cl.synthetic_samples, cl.synthetic_labels)
       IN call' = [call EXCEPT ![c] =
                     [cl EXCEPT !.pc = "done", !.result = "ok",
                         !.X_resampled = out.X, !.y_resampled = out.y,
                         !.same_object = out.same_object]]
    /\ UNCHANGED <<X, y, inst, rng, variant, db, request>>

\* ---------------------------------------------------- GSmote.fit_resample
\* lines 124-148: classes, deficit, early return, neighbour query
GSmoteFitResample(c) ==
    /\ inst.cls = "GSmote"
    /\ call[c].pc = "idle"
    /\ LET minority_class == MinorityClass(y)
           minority_indices == Where(y, minority_class)
           n_minority == Len(minority_indices)
           n_majority == Len(y) - n_minority
           n_samples == GSmoteNSamples(n_majority, n_minority)
           entered == [call[c] EXCEPT !.rng0 = rng,
                          !.minority_class = minority_class,
                          !.majority_class = MajorityClass(y),
                          !.minority_indices = minority_indices,
                          !.n_samples = n_samples]
       IN IF GSmoteNoDeficit(n_samples)
          THEN call' = [call EXCEPT ![c] =
                          [entered EXCEPT !.pc = "done", !.result = "ok",
                              !.X_resampled = X, !.y_resampled = y,
                              !.same_object = TRUE]]
          ELSE IF KNeighborsFails(inst.k_neighbors + 1, X)
               THEN call' = [call EXCEPT ![c] = Raised(entered, "ValueError")]
               ELSE \E indices \in KNeighborsTables(X, minority_indices, inst.k_neighbors + 1) :
                      call' = [call EXCEPT ![c] =
                                 [entered EXCEPT !.pc = "sample", !.indices = indices,
                                     !.distances = DistancesOf(X, minority_indices, indices)]]
    /\ UNCHANGED <<X, y, inst, rng, variant, db, request>>

\* lines 150-166: one pass of the loop up to the test of valid_neighbors
GSmoteDrawSample(c) ==
    /\ inst.cls = "GSmote"
    /\ call[c].pc = "sample"
    /\ ~LoopDone(call[c].it, call[c].n_samples)
    /\ LET cl == call[c]
           idx == RandInt(rng, Len(cl.minority_indices))
           valid_neighbors ==
               GSmoteValidNeighbors(inst.selection_strategy, y,
                                    Rest(cl.indices[idx + 1]), cl.minority_class)
       IN IF valid_neighbors = <<>>
          THEN call' = [call EXCEPT ![c] = Continue(cl)]
          ELSE call' = [call EXCEPT ![c] =
                          [cl EXCEPT !.pc = "neighbor", !.idx = idx, !.valid = valid_neighbors]]
    /\ rng' = NextRng(rng)
    /\ UNCHANGED <<X, y, inst, variant, db, request>>

\* lines 168-169: neighbor_idx = np.random.choice(valid_neighbors)
GSmoteDrawNeighbor(c) ==
    /\ inst.cls = "GSmote"
    /\ call[c].pc = "neighbor"
    /\ LET cl == call[c]
       IN call' = [call EXCEPT ![c] =
                     [cl EXCEPT !.pc = "alpha",
                         !.neighbor_idx = cl.valid[RandInt(rng, Len(cl.valid)) + 1]]]
    /\ rng' = NextRng(rng)
    /\ UNCHANGED <<X, y, inst, variant, db, request>>

\* lines 172-184: alpha, truncation, the synthetic sample and its label
GSmoteDrawAlpha(c) ==
    /\ inst.cls = "GSmote"
    /\ call[c].pc = "alpha"
    /\ LET cl == call[c]
           seed == cl.minority_indices[cl.idx + 1]
           neighbor == Rest(cl.indices[cl.idx + 1])[cl.neighbor_idx]
           alpha == GSmoteAlpha(rng, inst.truncation_factor)
       IN call' = [call EXCEPT ![c] =
                     [cl EXCEPT !.pc = "sample", !.it = cl.it + 1,
                         !.synthetic_samples =
                             Append(@, Interpolate(X[seed], X[neighbor], alpha)),
                         !.synthetic_labels =
                             Append(@, SyntheticLabel(cl.minority_class, cl.majority_class)),
                         !.drawn = Append(@, [seed |-> seed, neighbor |-> neighbor,
                                               alpha |-> alpha])]]
    /\ rng' = NextRng(rng)
    /\ UNCHANGED <<X, y, inst, variant, db, request>>

\* lines 186-194: combine and return
GSmoteReturn(c) ==
    /\ inst.cls = "GSmote"
    /\ call[c].pc = "sample"
    /\ LoopDone(call[c].it, call[c].n_samples)
    /\ LET cl == call[c]
           out == Combine(X, y, cl.synthetic_samples, cl.synthetic_labels)
       IN call' = [call EXCEPT ![c] =
                     [cl EXCEPT !.pc = "done", !.result = "ok",
                         !.X_resampled = out.X, !.y_resampled = out.y,
                         !.same_object = out.same_object]]
    /\ UNCHANGED <<X, y, inst, rng, variant, db, request>>

\* ------------------------------------------------------ get_smote_variant
\* lines 196-220: build the dict, look the lower-cased name up, raise or return
GetSmoteVariant ==
    /\ variant.pc = "idle"
    /\ LET key == VariantsKey(variant.variant_name)
       IN IF key \notin Range(VariantsKeys)
          THEN /\ variant' = [variant EXCEPT !.pc = "done", !.result = "ValueError",
                                 !.message = UnknownVariantMessage(variant.variant_name,
                                                                   VariantsKeys)]
               /\ inst' = inst
          ELSE /\ variant' = [variant EXCEPT !.pc = "done", !.result = "ok"]
               /\ inst' = VariantsValues(variant.random_state)[
                             CHOOSE i \in DOMAIN VariantsKeys : VariantsKeys[i] = key]
    /\ UNCHANGED <<X, y, rng, call, db, request>>

\* ---------------------------------------------------------------- analyze_job
\* analyze_job is a coroutine: between its start and its await, and between
\* the await and its return, no other request of the same process runs
LoopFree(w, r) ==
    \A r2 \in RequestIds \ {r} :
        request[r2].worker = w => request[r2].pc \notin {"analyze", "stored", "queried"}

\* the request is answered, with a response or with an error: the body and
\* the handler's locals end with it; what stays is what the client has
\* seen and the row the request has stored
Return(me, status, response) ==
    [Pending EXCEPT !.pc = "done", !.job_analysis_id = me.job_analysis_id,
                    !.status = status, !.response = response]

\* a request arrives at a worker with its body (requests are
\* interchangeable: they arrive in the order of their names)
ReceiveRequest(r) ==
    /\ request[r].pc = "pending"
    /\ \A r2 \in RequestIds : r2 < r => request[r2].pc # "pending"
    /\ \E w \in Workers, url \in UrlValues, text \in TextValues :
          request' = [request EXCEPT ![r].pc = "received", ![r].worker = w,
                                     ![r].job_input = [url |-> url, text |-> text]]
    /\ UNCHANGED <<X, y, inst, rng, call, variant, db>>

\* the body is validated, then lines 84-114 run: the blacklist look-up, and
\* the choice between the given text and a scrape. job_input.text is not
\* read after line 107 and is forgotten there
AnalyzeJob(r) ==
    /\ request[r].pc = "received"
    /\ LoopFree(request[r].worker, r)
    /\ LET me == request[r]
           job_input == me.job_input
           url == job_input.url
           text == job_input.text
           blacklisted_job == IF Truthy(url)
                              THEN BlacklistedJobFirst(db.blacklisted_jobs, url.value)
                              ELSE 0
       IN request' = [request EXCEPT ![r] =
             IF ~JobUrlValidates(job_input)
             THEN Return(me, 422, NoPrediction)
             ELSE IF blacklisted_job # 0
             THEN Return(me, 200, BlacklistedPrediction(
                                     url.value, db.blacklisted_jobs[blacklisted_job]))
             ELSE IF Truthy(text)
             THEN [me EXCEPT !.pc = "analyze", !.text = text,
                             !.job_input.text = Omitted]
             ELSE IF ~Truthy(url)
             THEN Return(me, ExceptException(422), NoPrediction)
             ELSE [me EXCEPT !.pc = "scrape", !.job_input.text = Omitted]]
    /\ UNCHANGED <<X, y, inst, rng, call, variant, db>>

\* line 114: await scrape_website(url) completes. A crawl that fails and a
\* page that is too short end in the scraper's HTTPException(500); any
\* other page is the text
ScrapeWebsite(r) ==
    /\ request[r].pc = "scrape"
    /\ LoopFree(request[r].worker, r)
    /\ \/ request' = [request EXCEPT
                        ![r] = Return(request[r], ExceptException(500), NoPrediction)]
       \/ \E content \in PageContents :
             request' = [request EXCEPT ![r] =
                IF InsufficientContent(content)
                THEN Return(request[r], ExceptException(500), NoPrediction)
                ELSE [request[r] EXCEPT !.pc = "analyze", !.text = Given(content)]]
    /\ UNCHANGED <<X, y, inst, rng, call, variant, db>>

\* lines 117-183: the length check, the verdict, the JobAnalysis row and
\* its commit
StoreJobAnalysis(r) ==
    /\ request[r].pc = "analyze"
    /\ LET me == request[r]
           text == me.text
       IN IF ~Truthy(text) \/ Len(Strip(text.value)) < MinTextLength
          THEN /\ request' = [request EXCEPT
                                 ![r] = Return(me, ExceptException(422), NoPrediction)]
               /\ db' = db
          ELSE \E v \in Verdicts :
                  LET db_job_analysis ==
                          [id |-> Len(db.job_analyses) + 1,
                           job_url |-> IF Truthy(me.job_input.url)
                                       THEN me.job_input.url.value
                                       ELSE DirectTextInput,
                           is_fake |-> v.is_fake, confidence |-> v.confidence]
                  IN /\ db' = [db EXCEPT !.job_analyses = Append(@, db_job_analysis)]
                     /\ request' = [request EXCEPT ![r].pc = "stored",
                                        ![r].is_fake = v.is_fake,
                                        ![r].confidence = v.confidence,
                                        ![r].job_analysis_id = db_job_analysis.id]
    /\ UNCHANGED <<X, y, inst, rng, call, variant>>

\* lines 186-187 and 210-221: a fake verdict on a URL looks the URL up in
\* the blacklist; any other verdict returns the prediction
QueryBlacklist(r) ==
    /\ request[r].pc = "stored"
    /\ LET me == request[r]
           url == me.job_input.url
       IN IF me.is_fake /\ Truthy(url)
          THEN LET i == BlacklistedJobFirst(db.blacklisted_jobs, url.value)
               IN request' = [request EXCEPT ![r].pc = "queried",
                                 ![r].existing_blacklist =
                                      IF i = 0 THEN NoRow ELSE db.blacklisted_jobs[i]]
          ELSE request' = [request EXCEPT
                              ![r] = Return(me, 200,
                                            Prediction(db.job_analyses[me.job_analysis_id]))]
    /\ UNCHANGED <<X, y, inst, rng, call, variant, db>>

\* lines 189-221: update the row that was found or add a new one, commit,
\* return the prediction; a refused INSERT leaves through line 223
CommitBlacklist(r) ==
    /\ request[r].pc = "queried"
    /\ LET me == request[r]
           url == me.job_input.url.value
           existing_blacklist == me.existing_blacklist
           ok == Return(me, 200, Prediction(db.job_analyses[me.job_analysis_id]))
       IN IF existing_blacklist.id # 0
          THEN /\ db' = [db EXCEPT !.blacklisted_jobs[existing_blacklist.id] =
                            [@ EXCEPT !.report_count = existing_blacklist.report_count + 1,
                                      !.confidence = Max(existing_blacklist.confidence,
                                                         me.confidence)]]
               /\ request' = [request EXCEPT ![r] = ok]
          ELSE IF UniqueViolation(db.blacklisted_jobs, url)
          THEN /\ db' = db
               /\ request' = [request EXCEPT
                                 ![r] = Return(me, ExceptException(500), NoPrediction)]
          ELSE /\ db' = [db EXCEPT !.blacklisted_jobs =
                            Append(@, [id |-> Len(db.blacklisted_jobs) + 1,
                                       job_url |-> url, is_fake |-> TRUE,
                                       confidence |-> me.confidence,
                                       report_count |-> 1])]
               /\ request' = [request EXCEPT ![r] = ok]
    /\ UNCHANGED <<X, y, inst, rng, call, variant>>

\* ---------------------------------------------------------- specifications
\* one fit_resample call on one oversampler, from any generator state
Next ==
    \/ SMOBDFitResample(1)
    \/ SMOBDDrawSample(1)
    \/ SMOBDDrawNeighbor(1)
    \/ SMOBDDrawAlpha(1)
    \/ SMOBDReturn(1)
    \/ GSmoteFitResample(1)
    \/ GSmoteDrawSample(1)
    \/ GSmoteDrawNeighbor(1)
    \/ GSmoteDrawAlpha(1)
    \/ GSmoteReturn(1)

Spec == Init /\ [][Next]_vars

\* Scenario A: SMOBDSmote(k_neighbors=5) on the 13-point datasets
InitA ==
    InitWith(ScenarioDatasets,
             {i \in [cls : {"SMOBDSmote"}, k_neighbors : {ScenarioK},
                     selection_strategy : {"combined"}, truncation_factor : {Scale},
                     random_state : {0}] : TRUE})

NextA ==
    \/ SMOBDFitResample(1)
    \/ SMOBDDrawSample(1)
    \/ SMOBDDrawNeighbor(1)
    \/ SMOBDDrawAlpha(1)
    \/ SMOBDReturn(1)

SpecA == InitA /\ [][NextA]_vars

\* Scenario B: GSmote(k_neighbors=5, selection_strategy='combined',
\* truncation_factor=0.5) on the 13-point datasets
InitB ==
    InitWith(ScenarioDatasets,
             {i \in [cls : {"GSmote"}, k_neighbors : {ScenarioK},
                     selection_strategy : {"combined"}, truncation_factor : {Scale \div 2},
                     random_state : {0}] : TRUE})

NextB ==
    \/ GSmoteFitResample(1)
    \/ GSmoteDrawSample(1)
    \/ GSmoteDrawNeighbor(1)
    \/ GSmoteDrawAlpha(1)
    \/ GSmoteReturn(1)

SpecB == InitB /\ [][NextB]_vars

\* values of selection_strategy that are neither 'minority' nor 'majority'
OtherStrategies == {"combined", "Minority", "both"}

\* GSmote with such a selection_strategy, k_neighbors = 0 included
InitStrategy ==
    InitWith(DistinctDatasets \cup DeficitDatasets,
             [cls : {"GSmote"}, k_neighbors : {0} \cup KNeighborsValues,
              selection_strategy : OtherStrategies, truncation_factor : {Scale},
              random_state : {0}])

NextStrategy ==
    \/ GSmoteFitResample(1)
    \/ GSmoteDrawSample(1)
    \/ GSmoteDrawNeighbor(1)
    \/ GSmoteDrawAlpha(1)
    \/ GSmoteReturn(1)

SpecStrategy == InitStrategy /\ [][NextStrategy]_vars

\* smote = get_smote_variant(variant_name, random_state) before any fit_resample
InitVariant ==
    /\ X = SeparatedDataset.X
    /\ y = SeparatedDataset.y
    /\ inst = NoInstance
    /\ rng \in 0..(RngMod - 1)
    /\ call = [c \in CallIds |-> Idle]
    /\ db = EmptyDb
    /\ request = [r \in RequestIds |-> Pending]
    /\ \E name \in VariantNames, random_state \in Seeds :
          variant = [NoRequest EXCEPT !.pc = "idle", !.variant_name = name,
                                     !.random_state = random_state]

NextVariant == GetSmoteVariant

SpecVariant == InitVariant /\ [][NextVariant]_vars

\* POST /analyze requests against an empty database, on one or two workers
InitJobs ==
    /\ X = SeparatedDataset.X
    /\ y = SeparatedDataset.y
    /\ inst = NoInstance
    /\ rng = 0
    /\ call = [c \in CallIds |-> Idle]
    /\ variant = NoRequest
    /\ db = EmptyDb
    /\ request = [r \in RequestIds |-> Pending]

NextJobs ==
    \E r \in RequestIds :
        \/ ReceiveRequest(r)
        \/ AnalyzeJob(r)
        \/ ScrapeWebsite(r)
        \/ StoreJobAnalysis(r)
        \/ QueryBlacklist(r)
        \/ CommitBlacklist(r)

SpecJobs == InitJobs /\ [][NextJobs]_vars

\* two fit_resample calls of the same oversampler on the same (X, y), in two
\* threads: their steps interleave and both draw from np.random
InitPair ==
    InitWith({d \in DistinctDatasets :
                \A a, b \in Labels : Count(d.y, a) - Count(d.y, b) <= PairDeficit},
             {i \in Instances : i.k_neighbors = MaxK /\ i.random_state = 0})

NextPair ==
    \E c \in CallIds :
        \/ SMOBDFitResample(c)
        \/ SMOBDDrawSample(c)
        \/ SMOBDDrawNeighbor(c)
        \/ SMOBDDrawAlpha(c)
        \/ SMOBDReturn(c)
        \/ GSmoteFitResample(c)
        \/ GSmoteDrawSample(c)
        \/ GSmoteDrawNeighbor(c)
        \/ GSmoteDrawAlpha(c)
        \/ GSmoteReturn(c)

SpecPair == InitPair /\ [][NextPair]_vars

\* ------------------------- a call run alone: the loops as pure functions
\* The synthetic samples that the loop of SMOBDSmote.fit_resample appends from
\* pass `it` on when no other draw from np.random falls between its own,
\* starting with the generator in state r.
RECURSIVE SMOBDLoopAlone(_, _, _)
SMOBDLoopAlone(cl, it, r) ==
    IF LoopDone(it, cl.n_samples) THEN <<>>
    ELSE LET idx == ChoiceP(cl.densities, r)
             seed == cl.minority_indices[cl.borderline_indices[idx + 1]]
             nn_idx == Rest(cl.indices[cl.borderline_indices[idx + 1]])
             nn_minority_idx == NNMinorityIdx(y, nn_idx, cl.minority_class)
             r1 == NextRng(r)
             r2 == NextRng(r1)
         IN IF nn_minority_idx = <<>> THEN SMOBDLoopAlone(cl, it + 1, r1)
            ELSE <<Interpolate(X[seed],
                               X[nn_minority_idx[RandInt(r1, Len(nn_minority_idx)) + 1]],
                               SMOBDAlpha(r2))>>
                 \o SMOBDLoopAlone(cl, it + 1, NextRng(r2))

\* the same for the loop of GSmote.fit_resample
RECURSIVE GSmoteLoopAlone(_, _, _)
GSmoteLoopAlone(cl, it, r) ==
    IF LoopDone(it, cl.n_samples) THEN <<>>
    ELSE LET idx == RandInt(r, Len(cl.minority_indices))
             seed == cl.minority_indices[idx + 1]
             nn_idx == Rest(cl.indices[idx + 1])
             valid_neighbors ==
                 GSmoteValidNeighbors(inst.selection_strategy, y, nn_idx, cl.minority_class)
             r1 == NextRng(r)
             r2 == NextRng(r1)
         IN IF valid_neighbors = <<>> THEN GSmoteLoopAlone(cl, it + 1, r1)
            ELSE <<Interpolate(X[seed],
                               X[nn_idx[valid_neighbors[RandInt(r1, Len(valid_neighbors)) + 1]]],
                               GSmoteAlpha(r2, inst.truncation_factor))>>
                 \o GSmoteLoopAlone(cl, it + 1, NextRng(r2))

\* ------------------------------------------------------------------ claims
\* the call the one-call specifications follow
Fit == call[1]

\* the call returned a dataset
Returned(cl) == cl.pc = "done" /\ cl.result = "ok"

\* the call went through its own synthesis loop
RanLoop(cl) ==
    /\ Returned(cl)
    /\ cl.indices # <<>>
    /\ inst.cls = "SMOBDSmote" => cl.borderline_indices # <<>>

\* the label with fewer rows in y (the smaller label when the counts are equal)
MinorityLabel == IF Count(y, 1) < Count(y, 0) THEN 1 ELSE 0

\* |majority| - |minority| of the input
Deficit == IF Count(y, 1) < Count(y, 0) THEN Count(y, 0) - Count(y, 1)
           ELSE Count(y, 1) - Count(y, 0)

\* number of rows the call added
Added(cl) == Len(cl.X_resampled) - Len(X)

\* C1: two calls of the same oversampler (same random_state, same
\* configuration) on the same (X, y), given the same neighbour tables, return
\* identical (X', y'), whatever was drawn from np.random before each of them.
Determinism ==
    (/\ Returned(call[1]) /\ Returned(call[2])
     /\ call[1].indices = call[2].indices)
    => /\ call[1].X_resampled = call[2].X_resampled
       /\ call[1].y_resampled = call[2].y_resampled

\* C2: a call whose steps interleave with another call's returns what it
\* returns when it runs alone from the same start: no generator state is
\* shared between the calls.
CallIndependence ==
    \A c \in CallIds :
        RanLoop(call[c]) =>
            call[c].X_resampled =
                X \o (IF inst.cls = "SMOBDSmote"
                      THEN SMOBDLoopAlone(call[c], 0, call[c].rng0)
                      ELSE GSmoteLoopAlone(call[c], 0, call[c].rng0))

\* C3: a returned (X', y') has len(X') = len(y') = len(X) + s with
\* 0 <= s <= n_samples = |majority| - |minority|.
SizeBound ==
    Returned(Fit) =>
        /\ Len(Fit.X_resampled) = Len(Fit.y_resampled)
        /\ Added(Fit) >= 0
        /\ Added(Fit) <= Deficit

\* a call that added some rows but fewer than the deficit
SizeBoundWitness ==
    Returned(Fit) /\ Added(Fit) > 0 /\ Added(Fit) < Deficit

\* C4: the first len(y) labels of y' are those of y, in place, and every
\* later label is the minority label of the input.
LabelIntegrity ==
    Returned(Fit) =>
        /\ Len(Fit.y_resampled) >= Len(y)
        /\ \A i \in DOMAIN Fit.y_resampled :
              Fit.y_resampled[i] = IF i <= Len(y) THEN y[i] ELSE MinorityLabel

\* a call that returned labels beyond len(y)
LabelIntegrityWitness ==
    Returned(Fit) /\ Len(Fit.y_resampled) > Len(y) + 1

\* C5: with as many minority as majority rows, GSmote.fit_resample returns
\* the input: same vectors, same labels, same order, no synthetic row.
NoOpGuard ==
    (/\ inst.cls = "GSmote"
     /\ Fit.pc = "done"
     /\ Count(y, 0) = Count(y, 1))
    => /\ Fit.result = "ok"
       /\ Fit.X_resampled = X
       /\ Fit.y_resampled = y

\* a balanced input returned as it is, also with k_neighbors >= len(X)
NoOpGuardWitness ==
    /\ inst.cls = "GSmote"
    /\ Returned(Fit)
    /\ Count(y, 0) = Count(y, 1)
    /\ inst.k_neighbors >= Len(X)
    /\ Fit.X_resampled = X

\* the rows that the neighbour query returned for the minority row `row`,
\* its first entry left out
QueriedNeighbors(cl, row) ==
    UNION {Range(Rest(cl.indices[pos])) :
             pos \in {q \in DOMAIN cl.indices : cl.minority_indices[q] = row}}

\* v = seed + (a/Scale)*(neighbor - seed), without division
IsAffine(v, seed, neighbor, a) ==
    \A i \in DOMAIN v : Scale * v[i] = Scale * seed[i] + a * (neighbor[i] - seed[i])

\* C6: every synthetic vector of GSmote is seed + alpha*(neighbor - seed) for
\* a minority seed and one of its queried neighbours, with
\* |alpha| <= truncation_factor, for every truncation_factor > 0.
BoundedExtrapolation ==
    inst.cls = "GSmote" =>
        /\ \A t \in DOMAIN Fit.synthetic_samples :
              LET e == Fit.drawn[t]
              IN /\ y[e.seed] = MinorityLabel
                 /\ e.neighbor \in QueriedNeighbors(Fit, e.seed)
                 /\ e.alpha <= inst.truncation_factor
                 /\ -e.alpha <= inst.truncation_factor
                 /\ IsAffine(Fit.synthetic_samples[t], X[e.seed], X[e.neighbor], e.alpha)
        /\ RanLoop(Fit) => Fit.X_resampled = X \o Fit.synthetic_samples

\* a returned row made with alpha = -1 under a truncation factor above 1
BoundedExtrapolationWitness ==
    /\ inst.cls = "GSmote"
    /\ Returned(Fit)
    /\ inst.truncation_factor > Scale
    /\ \E t \in DOMAIN Fit.drawn :
          /\ Fit.drawn[t].alpha = -Scale
          /\ Fit.X_resampled[Len(X) + t] # X[Fit.drawn[t].seed]

\* C7: every synthetic vector of SMOBDSmote's own loop lies componentwise
\* between its seed and its chosen neighbour.
InterpolationBound ==
    inst.cls = "SMOBDSmote" =>
        \A t \in DOMAIN Fit.synthetic_samples :
            LET v == Fit.synthetic_samples[t]
                a == X[Fit.drawn[t].seed]
                b == X[Fit.drawn[t].neighbor]
            IN \A i \in DOMAIN v :
                  /\ v[i] >= (IF a[i] <= b[i] THEN a[i] ELSE b[i])
                  /\ v[i] <= (IF a[i] <= b[i] THEN b[i] ELSE a[i])

\* a returned synthetic row strictly inside the segment
InterpolationBoundWitness ==
    /\ inst.cls = "SMOBDSmote"
    /\ RanLoop(Fit)
    /\ \E t \in DOMAIN Fit.synthetic_samples :
          /\ Fit.X_resampled[Len(X) + t] # X[Fit.drawn[t].seed]
          /\ Fit.X_resampled[Len(X) + t] # X[Fit.drawn[t].neighbor]

\* the label passes the selection strategy
PassesStrategy(label) ==
    IF inst.selection_strategy = "minority" THEN label = MinorityLabel
    ELSE IF inst.selection_strategy = "majority" THEN label # MinorityLabel
         ELSE TRUE

\* every minority row has a queried neighbour that passes the strategy
EveryMinorityHasPartner(cl) ==
    \A pos \in DOMAIN cl.indices :
        \E j \in Range(Rest(cl.indices[pos])) : PassesStrategy(y[j])

\* C8: GSmote adds exactly s minority labels, s the number of synthetic rows,
\* and s = n_samples when every minority row has a neighbour that passes the
\* selection strategy.
BalanceImprovement ==
    (inst.cls = "GSmote" /\ Returned(Fit)) =>
        /\ Count(Fit.y_resampled, MinorityLabel) - Count(y, MinorityLabel) = Added(Fit)
        /\ EveryMinorityHasPartner(Fit) => Added(Fit) = Deficit

\* a 'minority' run that filled the whole deficit of two rows or more
BalanceImprovementWitness ==
    /\ inst.cls = "GSmote"
    /\ Returned(Fit)
    /\ inst.selection_strategy = "minority"
    /\ Fit.indices # <<>>
    /\ EveryMinorityHasPartner(Fit)
    /\ Deficit >= 2
    /\ Added(Fit) = Deficit

\* rows of the minority points of Scenario A: the two at (0.5,0.5), then the
\* one near (1,1)
BoundaryRows == {11, 12}
ThirdRows == {13}

\* the rows that borderline detection marked
BorderlineRows(cl) == {cl.minority_indices[b] : b \in Range(cl.borderline_indices)}

\* C9 as stated: in Scenario A the two boundary points are borderline and the
\* third minority point is not.
ScenarioABorderlineAsStated ==
    Fit.pc # "idle" => BorderlineRows(Fit) = BoundaryRows

\* C9: in Scenario A all three minority points are borderline: each has at
\* least 3 majority rows among its 5 neighbours, and 3 > 5/2.
ScenarioABorderline ==
    Fit.pc # "idle" => BorderlineRows(Fit) = BoundaryRows \cup ThirdRows

\* borderline detection has run on Scenario A and marked the third point
ScenarioABorderlineWitness ==
    Fit.pc = "sample" /\ Fit.it = 0 /\ ThirdRows \subseteq BorderlineRows(Fit)

\* C10: on Scenario A SMOBDSmote.fit_resample appends exactly 7 rows, whatever
\* the draws: the final class counts are 10 and 10.
ScenarioAOutput ==
    Fit.pc = "done" =>
        /\ Fit.result = "ok"
        /\ Len(Fit.X_resampled) = Len(X) + 7
        /\ Count(Fit.y_resampled, 0) = 10
        /\ Count(Fit.y_resampled, 1) = 10

\* a Scenario A call that returned and drew the third point as a seed
ScenarioAOutputWitness ==
    /\ Returned(Fit)
    /\ Len(Fit.y_resampled) = 20
    /\ \E t \in DOMAIN Fit.drawn : Fit.drawn[t].seed \in ThirdRows

\* the passes of the loop that ended in `continue`
Dropped(cl) == cl.it - Len(cl.synthetic_samples)

\* C11: on Scenario B no synthesis draw of GSmote uses an alpha of absolute
\* value above 0.5, and the returned dataset has 20 rows less the number of
\* dropped draws.
ScenarioBOutput ==
    /\ \A t \in DOMAIN Fit.drawn :
          /\ 2 * Fit.drawn[t].alpha <= Scale
          /\ -2 * Fit.drawn[t].alpha <= Scale
    /\ Fit.pc = "done" =>
          /\ Fit.result = "ok"
          /\ Len(Fit.X_resampled) = 20 - Dropped(Fit)
          /\ Len(Fit.y_resampled) = 20 - Dropped(Fit)

\* a Scenario B call that returned after draws truncated on both sides
ScenarioBOutputWitness ==
    /\ Returned(Fit)
    /\ Fit.it = 7
    /\ \E t \in DOMAIN Fit.drawn : Fit.drawn[t].alpha = inst.truncation_factor
    /\ \E t \in DOMAIN Fit.drawn : Fit.drawn[t].alpha = -inst.truncation_factor

\* the two strings are the same but for the case of their letters
EqualsIgnoringCase(a, b) ==
    /\ Len(a) = Len(b)
    /\ \A i \in DOMAIN a :
          \/ a[i] = b[i]
          \/ \E j \in DOMAIN UpperLetters :
                {a[i], b[i]} = {UpperLetters[j], LowerLetters[j]}

\* the name is none of the recognized names in any letter case
Unrecognized(name) ==
    \A i \in DOMAIN VariantsKeys : ~EqualsIgnoringCase(name, VariantsKeys[i])

\* C12: get_smote_variant called with a name that is none of the 7 recognized
\* names in any letter case raises an error whose message lists all 7
\* recognized names, and no oversampler is returned.
UnknownVariant ==
    (variant.pc = "done" /\ Unrecognized(variant.variant_name)) =>
        /\ variant.result = "ValueError"
        /\ variant.message.variant_name = variant.variant_name
        /\ Len(variant.message.available) = 7
        /\ Range(variant.message.available) =
              {SmoteName, BorderlineSmoteName, SvmSmoteName, AdasynName,
               SmoteTomekName, SmobdSmoteName, GSmoteName}
        /\ inst = NoInstance

\* 'foo_smote' was refused
UnknownVariantWitness ==
    /\ variant.pc = "done"
    /\ variant.variant_name = <<"f", "o", "o", "_", "s", "m", "o", "t", "e">>
    /\ variant.result = "ValueError"
    /\ inst = NoInstance

\* C13: get_smote_variant matches the name without regard to letter case:
\* 'smobd_smote' in any letter case returns an SMOBDSmote, 'g_smote' in any
\* letter case a GSmote, each with the random_state that was passed.
RegistryDispatch ==
    variant.pc = "done" =>
        /\ EqualsIgnoringCase(variant.variant_name, SmobdSmoteName) =>
              /\ variant.result = "ok"
              /\ inst.cls = "SMOBDSmote"
              /\ inst.random_state = variant.random_state
        /\ EqualsIgnoringCase(variant.variant_name, GSmoteName) =>
              /\ variant.result = "ok"
              /\ inst.cls = "GSmote"
              /\ inst.random_state = variant.random_state

\* a mixed-case spelling of 'smobd_smote' returned an SMOBDSmote with a
\* random_state other than 0
RegistryDispatchWitness ==
    /\ variant.pc = "done"
    /\ variant.variant_name = <<"S", "M", "O", "B", "D", "_", "S", "m", "o", "t", "e">>
    /\ inst.cls = "SMOBDSmote"
    /\ inst.random_state = MaxSeed
    /\ MaxSeed > 0

\* C14: no fit_resample call changes the caller's X or y, and what a call
\* returns is a new pair of sequences, never the caller's own, on every
\* return path.  (No step of a call assigns to X or y; the predicate states
\* the part about what is returned.)
InputNeverMutated ==
    Returned(Fit) => /\ ~Fit.same_object
                     /\ Len(Fit.X_resampled) >= Len(X)
                     /\ \A i \in DOMAIN X : Fit.X_resampled[i] = X[i] /\ Fit.y_resampled[i] = y[i]

\* the call ended with the error of the neighbour query: nothing was queried,
\* nothing is returned
QueryRaised(cl) ==
    /\ cl.pc = "done"
    /\ cl.result = "ValueError"
    /\ cl.indices = <<>>
    /\ cl.X_resampled = <<>>
    /\ cl.y_resampled = <<>>

\* C15 as stated: with k_neighbors >= len(X), fit_resample of either
\* oversampler ends with the error of the neighbour query, on every input,
\* balanced ones included.
OversizedKAsStated ==
    (Fit.pc = "done" /\ inst.k_neighbors >= Len(X)) => QueryRaised(Fit)

\* C15: with k_neighbors >= len(X), SMOBDSmote.fit_resample ends with the
\* error of the neighbour query on every input; GSmote.fit_resample does so on
\* every input with a positive deficit, and on a balanced input it returns
\* the input, the query never made.
OversizedK ==
    (Fit.pc = "done" /\ inst.k_neighbors >= Len(X)) =>
        IF inst.cls = "GSmote" /\ Deficit = 0
        THEN Returned(Fit) /\ Fit.indices = <<>> /\ Fit.X_resampled = X /\ Fit.y_resampled = y
        ELSE QueryRaised(Fit)

\* SMOBDSmote raised on a balanced input with k_neighbors = len(X)
OversizedKWitness ==
    /\ inst.cls = "SMOBDSmote"
    /\ inst.k_neighbors = Len(X)
    /\ Deficit = 0
    /\ QueryRaised(Fit)

\* the call is in its synthesis loop or has returned from it
InLoop(cl) == cl.pc \in {"sample", "neighbor", "alpha"} \/ RanLoop(cl)

\* C16: in both oversamplers a draw whose filtered neighbour pool is empty
\* (a pass that ends without a partner being drawn) appends no row and raises
\* nothing, and is the end of one of the n_samples attempts; a call that got
\* into its loop returns a dataset after exactly n_samples attempts, however
\* many of them were dropped.
PartialSynthesis ==
    /\ [][(Fit.pc = "sample" /\ Fit'.pc = "sample") =>
            /\ Fit'.it = Fit.it + 1
            /\ Fit'.synthetic_samples = Fit.synthetic_samples
            /\ Fit'.synthetic_labels = Fit.synthetic_labels
            /\ Fit'.result = "none"]_vars
    /\ [](InLoop(Fit) =>
            /\ Fit.result \in {"none", "ok"}
            /\ Fit.it <= Fit.n_samples
            /\ Dropped(Fit) >= 0
            /\ Fit.pc = "done" =>
                  /\ Fit.it = Fit.n_samples
                  /\ Added(Fit) = Fit.n_samples - Dropped(Fit))

\* a call of SMOBDSmote that returned after all of its two or more draws
\* were dropped
PartialSynthesisWitness ==
    /\ inst.cls = "SMOBDSmote"
    /\ RanLoop(Fit)
    /\ Fit.n_samples >= 2
    /\ Dropped(Fit) = Fit.n_samples
    /\ Fit.X_resampled = X

\* the label with more rows in y (the smaller label when the counts are equal)
MajorityLabel == IF Count(y, 1) > Count(y, 0) THEN 1 ELSE 0

\* the number of majority-labelled rows among the neighbours of the minority
\* sample at position pos: the query result without its first entry
MajorityNeighbors(cl, pos) ==
    Cardinality({j \in DOMAIN Rest(cl.indices[pos]) :
                    y[Rest(cl.indices[pos])[j]] = MajorityLabel})

SMOTEFallback ==
    (inst.cls = "SMOBDSmote" /\ Fit.indices # <<>>) =>
        IF Fit.borderline_indices = <<>>
        THEN /\ Fit.pc = "done"
             /\ Fit.result = "ok"
             /\ [result |-> "ok", X |-> Fit.X_resampled, y |-> Fit.y_resampled]
                   \in SMOTEFitResample(X, y, inst.random_state)
             /\ Fit.drawn = <<>>
             /\ rng = Fit.rng0
        ELSE /\ Fit.pc \in {"sample", "neighbor", "alpha", "done"}
             /\ Fit.pc = "done" =>
                   /\ Fit.result = "ok"
                   /\ Fit.X_resampled = X \o Fit.synthetic_samples

\* C19: every synthetic row of SMOBDSmote's own loop has a borderline minority
\* sample as its seed and, as its partner, a minority-labelled row of X taken
\* from that seed's neighbour list; the partner is never a majority row.
SMOBDSeedAndPartner ==
    inst.cls = "SMOBDSmote" =>
        /\ Len(Fit.drawn) = Len(Fit.synthetic_samples)
        /\ \A t \in DOMAIN Fit.drawn :
              LET e == Fit.drawn[t]
              IN /\ e.seed \in BorderlineRows(Fit)
                 /\ y[e.seed] = MinorityLabel
                 /\ e.neighbor \in DOMAIN X
                 /\ e.neighbor \in QueriedNeighbors(Fit, e.seed)
                 /\ y[e.neighbor] = MinorityLabel
                 /\ y[e.neighbor] # MajorityLabel
                 /\ IsAffine(Fit.synthetic_samples[t], X[e.seed], X[e.neighbor], e.alpha)

\* a returned row whose seed had two or more neighbours and whose partner is
\* another row than the seed
SMOBDSeedAndPartnerWitness ==
    /\ inst.cls = "SMOBDSmote"
    /\ RanLoop(Fit)
    /\ inst.k_neighbors >= 2
    /\ \E t \in DOMAIN Fit.drawn :
          /\ Fit.drawn[t].neighbor # Fit.drawn[t].seed
          /\ X[Fit.drawn[t].neighbor] # X[Fit.drawn[t].seed]

\* C20: the partner of every synthetic row of GSmote is one of the seed's own
\* k_neighbors neighbours; under 'minority' it carries the minority label,
\* under 'majority' another label, under 'combined' either.
SelectionStrategy ==
    inst.cls = "GSmote" =>
        /\ Len(Fit.drawn) = Len(Fit.synthetic_samples)
        /\ \A t \in DOMAIN Fit.drawn :
              LET e == Fit.drawn[t]
              IN /\ y[e.seed] = MinorityLabel
                 /\ e.neighbor \in QueriedNeighbors(Fit, e.seed)
                 /\ Cardinality(QueriedNeighbors(Fit, e.seed)) = inst.k_neighbors
                 /\ inst.selection_strategy = "minority" => y[e.neighbor] = MinorityLabel
                 /\ inst.selection_strategy = "majority" => y[e.neighbor] # MinorityLabel
                 /\ inst.selection_strategy \in Strategies

\* a 'combined' run that returned with a minority partner and a majority
\* partner among its rows
SelectionStrategyWitness ==
    /\ inst.cls = "GSmote"
    /\ inst.selection_strategy = "combined"
    /\ Returned(Fit)
    /\ \E t \in DOMAIN Fit.drawn : y[Fit.drawn[t].neighbor] = MinorityLabel
    /\ \E t \in DOMAIN Fit.drawn : y[Fit.drawn[t].neighbor] # MinorityLabel

\* C21: what either oversampler returns from its own synthesis loop is the
\* rows of X, unchanged and in order, followed by one row per successful draw,
\* in the order of the draws, each seed + alpha*(neighbor - seed) for two rows
\* of X; the labels go with the rows.
OutputComposition ==
    RanLoop(Fit) =>
        /\ Len(Fit.X_resampled) = Len(X) + Len(Fit.drawn)
        /\ Len(Fit.y_resampled) = Len(Fit.X_resampled)
        /\ \A i \in DOMAIN X : Fit.X_resampled[i] = X[i] /\ Fit.y_resampled[i] = y[i]
        /\ \A t \in DOMAIN Fit.drawn :
              LET e == Fit.drawn[t]
              IN /\ e.seed \in DOMAIN X
                 /\ e.neighbor \in DOMAIN X
                 /\ IsAffine(Fit.X_resampled[Len(X) + t], X[e.seed], X[e.neighbor], e.alpha)

\* a call that returned two different synthetic rows
OutputCompositionWitness ==
    /\ RanLoop(Fit)
    /\ Len(Fit.drawn) >= 2
    /\ Fit.X_resampled[Len(X) + 1] # Fit.X_resampled[Len(X) + 2]
    /\ Fit.drawn[1].seed # Fit.drawn[2].seed

\* C22: the first entry of every minority sample's query result is the sample
\* itself, at distance 0, and the sample is not among the entries after it,
\* duplicate vectors in X or not.
SelfMatchFirst ==
    \A pos \in DOMAIN Fit.indices :
        /\ Fit.indices[pos][1] = Fit.minority_indices[pos]
        /\ Fit.distances[pos][1] = 0
        /\ Fit.minority_indices[pos] \notin Range(Rest(Fit.indices[pos]))

\* C23: on an input with |majority| - |minority| <= 0 and a borderline
\* sample, SMOBDSmote.fit_resample makes no synthesis draw and returns the rows
\* and labels of the input, no synthetic row added.
SMOBDNonDeficit ==
    (/\ inst.cls = "SMOBDSmote"
     /\ Deficit <= 0
     /\ Fit.borderline_indices # <<>>)
    => /\ Fit.pc \in {"sample", "done"}
       /\ Fit.n_samples <= 0
       /\ Fit.it = 0
       /\ Fit.drawn = <<>>
       /\ rng = Fit.rng0
       /\ Fit.pc = "done" =>
             /\ Fit.result = "ok"
             /\ Fit.X_resampled = X
             /\ Fit.y_resampled = y

\* a balanced input with a borderline sample was returned as it is
SMOBDNonDeficitWitness ==
    /\ inst.cls = "SMOBDSmote"
    /\ Deficit = 0
    /\ Fit.borderline_indices # <<>>
    /\ Returned(Fit)
    /\ Fit.X_resampled = X
    /\ Len(X) >= 4

\* the sum of the distances from the i-th borderline sample to its neighbours
\* (the query result without its first entry), in units of 1/Scale
NeighborDistanceSum(cl, i) == SumSeq(Rest(cl.distances[cl.borderline_indices[i]]))

\* the polynomial has no negative coefficient
PolyNonNegative(p) == \A d \in DOMAIN p : p[d] >= 0

\* C24: the weights SMOBDSmote draws its borderline samples with are
\* non-negative, sum to 1, and are each proportional to
\* 1 / (mean distance to the sample's k_neighbors neighbours + epsilon):
\* weight * (sum of distances + k*epsilon) is the same for every sample; on
\* the uniform branch the weights are all 1/n.
DensityDistribution ==
    (inst.cls = "SMOBDSmote" /\ Fit.borderline_indices # <<>>) =>
        LET w == Fit.densities
            n == Len(Fit.borderline_indices)
        IN /\ DOMAIN w.p = 1..n
           /\ \A i \in 1..n : PolyNonNegative(w.p[i])
           /\ PolySum(w.p, n) = w.total
           /\ \E d \in DOMAIN w.total : w.total[d] > 0
           /\ IF w.uniform
              THEN \A i \in 1..n : w.p[i] = <<1>> /\ w.total = <<n>>
              ELSE \A i, j \in 1..n :
                     PolyTimesLinear(w.p[i], NeighborDistanceSum(Fit, i),
                                     inst.k_neighbors * Scale)
                     = PolyTimesLinear(w.p[j], NeighborDistanceSum(Fit, j),
                                       inst.k_neighbors * Scale)

\* two borderline samples at different mean distances, weighted differently
DensityDistributionWitness ==
    /\ inst.cls = "SMOBDSmote"
    /\ Fit.pc = "sample"
    /\ ~Fit.densities.uniform
    /\ \E i, j \in DOMAIN Fit.borderline_indices :
          /\ NeighborDistanceSum(Fit, i) < NeighborDistanceSum(Fit, j)
          /\ Fit.densities.p[i] # Fit.densities.p[j]
          /\ PolyLeq(Fit.densities.p[j], Fit.densities.p[i])

\* C25: the uniform branch of the normalisation is never taken: whenever there
\* is a borderline sample, every density is strictly positive and so is their
\* total.
UniformUnreachable ==
    (inst.cls = "SMOBDSmote" /\ Fit.borderline_indices # <<>>) =>
        /\ ~Fit.densities.uniform
        /\ \A i \in DOMAIN Fit.borderline_indices :
              /\ NeighborDistanceSum(Fit, i) >= 0
              /\ inst.k_neighbors * Scale > 0
              /\ Fit.densities.d[i].num > 0
              /\ \/ Fit.densities.d[i].den0 > 0
                 \/ Fit.densities.d[i].den0 = 0 /\ Fit.densities.d[i].den1 > 0

\* a borderline sample all of whose neighbours are at distance 0: its
\* density is 1/epsilon
UniformUnreachableWitness ==
    /\ inst.cls = "SMOBDSmote"
    /\ Fit.pc = "sample"
    /\ \A i \in DOMAIN Fit.borderline_indices : NeighborDistanceSum(Fit, i) = 0
    /\ ~Fit.densities.uniform

\* C26: when the two labels of y occur equally often, both oversamplers take
\* the smaller label as the minority label, and SMOBDSmote takes it as the
\* majority label too: its minority and majority index sets are the same.
TieResolution ==
    (Fit.pc # "idle" /\ Count(y, 0) = Count(y, 1)) =>
        /\ \A l \in Range(y) : Fit.minority_class <= l
        /\ Range(Fit.minority_indices) = {i \in DOMAIN y : y[i] = Fit.minority_class}
        /\ inst.cls = "SMOBDSmote" =>
              /\ Fit.majority_class = Fit.minority_class
              /\ Where(y, Fit.majority_class) = Fit.minority_indices

\* a balanced input whose first row carries the larger label, past the
\* entry of SMOBDSmote.fit_resample with its neighbours queried
TieResolutionWitness ==
    /\ inst.cls = "SMOBDSmote"
    /\ Count(y, 0) = Count(y, 1)
    /\ y[1] = 1
    /\ Fit.indices # <<>>
    /\ Fit.minority_class = 0
    /\ Fit.majority_class = 0

\* C27: GSmote takes any selection_strategy other than 'minority' and
\* 'majority' for 'combined': every neighbour is kept, so with
\* k_neighbors >= 1 no draw is dropped and a returned dataset has exactly
\* n_samples synthetic rows.
UnvalidatedStrategy ==
    (/\ inst.cls = "GSmote"
     /\ inst.selection_strategy \notin {"minority", "majority"}
     /\ inst.k_neighbors >= 1)
    => /\ Fit.pc \in {"neighbor", "alpha"} =>
             Fit.valid = Ascending(1..inst.k_neighbors)
       /\ Fit.pc \in {"sample", "done"} => Dropped(Fit) = 0
       /\ Returned(Fit) =>
             /\ Added(Fit) = Deficit
             /\ Len(Fit.drawn) = Deficit

\* 'Minority', which is not 'minority': the whole deficit of two rows was
\* filled, one of the partners a majority row
UnvalidatedStrategyWitness ==
    /\ inst.cls = "GSmote"
    /\ inst.selection_strategy = "Minority"
    /\ Returned(Fit)
    /\ Deficit >= 2
    /\ Added(Fit) = Deficit
    /\ \E t \in DOMAIN Fit.drawn : y[Fit.drawn[t].neighbor] # MinorityLabel

\* the rows of the blacklist for a URL
BlacklistRows(url) ==
    {i \in DOMAIN db.blacklisted_jobs : db.blacklisted_jobs[i].job_url = url}

\* request r enters analyze_job in this step: its body has passed validation
\* and the handler runs from line 84 to its await or its return
EntersHandler(r) ==
    /\ request[r].pc = "received"
    /\ request'[r].pc # "received"
    /\ JobUrlValidates(request[r].job_input)

\* C28: once a BlacklistedJob row is committed for a URL, every analyze_job
\* call that starts afterwards with that URL returns at once with status 200
\* and is_blacklisted = TRUE, carrying the is_fake and confidence of the
\* stored row, and leaves the database as it was: no JobAnalysis row is
\* added, no report_count is changed.
BlacklistShortCircuit ==
    [][\A r \in RequestIds :
          LET url == request[r].job_input.url
          IN (/\ EntersHandler(r)
              /\ Truthy(url)
              /\ BlacklistRows(url.value) # {})
             => /\ request'[r].pc = "done"
                /\ request'[r].status = 200
                /\ request'[r].response.is_blacklisted
                /\ request'[r].response.job_url = url.value
                /\ request'[r].job_analysis_id = 0
                /\ \E i \in BlacklistRows(url.value) :
                      /\ request'[r].response.is_fake = db.blacklisted_jobs[i].is_fake
                      /\ request'[r].response.confidence = db.blacklisted_jobs[i].confidence
                /\ db' = db]_vars

\* a request was answered from the blacklist: the other request's analysis
\* is the only JobAnalysis row and the blacklist row has been reported once
BlacklistShortCircuitWitness ==
    \E r \in RequestIds :
        /\ request[r].pc = "done"
        /\ request[r].status = 200
        /\ request[r].response.is_blacklisted
        /\ request[r].response.is_fake
        /\ Len(db.job_analyses) = 1
        /\ Len(db.blacklisted_jobs) = 1
        /\ db.blacklisted_jobs[1].job_url = request[r].response.job_url
        /\ db.blacklisted_jobs[1].report_count = 1
        /\ request[r].response.confidence = db.blacklisted_jobs[1].confidence


\* the requests that were judged fake on a URL and have stored their
\* JobAnalysis row
StoredFake ==
    {r \in RequestIds :
        /\ request[r].job_analysis_id # 0
        /\ db.job_analyses[request[r].job_analysis_id].is_fake
        /\ db.job_analyses[request[r].job_analysis_id].job_url # DirectTextInput}

\* C29: however the steps of concurrent analyze_job calls interleave, a call
\* that was judged fake on a URL and has committed its JobAnalysis row ends
\* with status 200, and once it has ended the blacklist holds exactly one
\* row for its URL.
ConcurrentReports ==
    \A r \in StoredFake :
        request[r].pc = "done"
        => /\ request[r].status = 200
           /\ Cardinality(BlacklistRows(db.job_analyses[request[r].job_analysis_id].job_url)) = 1


\* the characters of a text that are not blank
NonBlank(s) == Len(SelectSeq(s, LAMBDA ch : ch # " "))

\* request r is answered in this step with status 422 and no row is stored
RejectedUnprocessable(r) ==
    /\ request'[r].pc = "done"
    /\ request'[r].status = 422
    /\ request'[r].job_analysis_id = 0
    /\ db' = db

\* C30: a request whose body has neither a url nor a text, or whose job text
\* has fewer than MinTextLength non-blank characters, is answered with
\* status 422 in the step that examines it, and that step stores no
\* JobAnalysis row and no BlacklistedJob row.
InputValidation ==
    [][\A r \in RequestIds :
          LET job_input == request[r].job_input
          IN /\ (/\ request[r].pc = "received"
                 /\ request'[r].pc # "received"
                 /\ \/ ~Truthy(job_input.url) /\ ~Truthy(job_input.text)
                    \/ /\ Truthy(job_input.text)
                       /\ NonBlank(job_input.text.value) < MinTextLength)
                => RejectedUnprocessable(r)
             /\ (/\ request[r].pc = "analyze"
                 /\ request'[r].pc # "analyze"
                 /\ NonBlank(request[r].text.value) < MinTextLength)
                => RejectedUnprocessable(r)]_vars


====
